---- MODULE Spec2Model ----
(***************************************************************************)
(* Model of pym/euscan/scan.py: filter_versions, scan_upstream_urls and    *)
(* scan_upstream.                                                          *)
(*                                                                         *)
(* The file is Python 2 code (it reads e.message, which only Python 2      *)
(* exceptions carry, and imports print_function from __future__ but not    *)
(* division), so 70 / num_urls is the integer division of two ints.        *)
(*                                                                         *)
(* Strings the code inspects character by character (URLs: len(url) and    *)
(* '://' in url; package versions: '9999' in pkg.version) are sequences of *)
(* one-character strings.  A Python dict is a function whose DOMAIN is     *)
(* its key set; the list built by iterating a dict (whose order Python 2   *)
(* leaves unspecified) is the set of its elements.                         *)
(***************************************************************************)
EXTENDS Integers, Sequences, FiniteSets, TLC

VARIABLES
    pc,                  \* position of the one running call
    CONFIG,              \* euscan.CONFIG: oneshot, scan-dir, brute-force
    on_progress,         \* TRUE iff a progress callback was supplied
    matches,             \* scan_upstream: the list of matching packages
    pkg,                 \* scan_upstream: the selected package
    urls,                \* the source-location map handed to the dispatcher
    fi, ui,              \* scan_upstream_urls: current filename / url index
    versions,            \* scan_upstream_urls: accumulated raw findings
    progress_available,  \* scan_upstream_urls: remaining per-URL budget
    progress_increment,  \* scan_upstream_urls: budget share of one URL
    reported,            \* sum of the increments passed to on_progress
    calls,               \* log of the handler calls made, in order
    result               \* what the running call returned or raised

vars == <<pc, CONFIG, on_progress, matches, pkg, urls, fi, ui, versions,
          progress_available, progress_increment, reported, calls, result>>

----------------------------------------------------------------------------
(* Bounds of the model *)

\* most URLs in a source-location map
MaxUrls == 3
\* most packages a query matches
MaxMatches == 3
\* longest findings list handed to filter_versions on its own
MaxFindings == 3
\* URLs of the one long map: more URLs than the per-URL budget has units
BigCount == 71

----------------------------------------------------------------------------
(* Progress budget *)

\* on_progress(increment=10) once the package is resolved
ResolveIncrement == 10
\* progress_available = 70 in scan_upstream_urls
UrlBudget == 70
\* on_progress(increment=10) once the dispatcher has returned
FinalIncrement == 10

----------------------------------------------------------------------------
(* Strings *)

\* Python's `sub in s` on strings
Contains(s, sub) ==
    \E i \in 1..(Len(s) - Len(sub) + 1) : SubSeq(s, i, i + Len(sub) - 1) = sub

SchemeSep == <<":", "/", "/">>
LiveMarker == <<"9", "9", "9", "9">>

\* declared URLs (SRC_URI entries)
UrlOk == <<"h", ":", "/", "/", "a">>
UrlBad == <<"a", ".", "t">>
DeclaredUrls == {UrlOk, UrlBad}

\* URLs reported by handlers: two of the same length and a longer one
FUrlDir == <<":", "/", "/", "d">>
FUrlAlt == <<":", "/", "/", "e">>
FUrlFile == <<":", "/", "/", "d", "/", "f">>
FoundUrls == {FUrlDir, FUrlAlt, FUrlFile}

----------------------------------------------------------------------------
(* Blacklists *)

CpOk == "app/foo"
CpOther == "app/bar"
CpBad == "app/banned"

BLACKLIST_PACKAGES == {CpBad}

BLACKLIST_VERSIONS == {<<CpOk, "6.6">>}

version_blacklisted(cp, version) == <<cp, version>> \in BLACKLIST_VERSIONS

----------------------------------------------------------------------------
(* filter_versions *)

FoundVersions == {"1.2", "2.0", "6.6"}
HandlerNames == {<<"generic", 80>>, <<"brute_force", 40>>}

\* a finding is the tuple (url, version, handler, confidence)
Findings ==
    {<<u, v, h[1], h[2]>> : u \in FoundUrls, v \in FoundVersions, h \in HandlerNames}

SeqsUpTo(S, n) == UNION {[1..k -> S] : k \in 0..n}

EmptyDict == [v \in {} |-> [url |-> <<>>, handler |-> "", confidence |-> 0]]

Entry(f) == [url |-> f[1], handler |-> f[3], confidence |-> f[4]]

\* mutant: the assignment replaces the dict by one holding only this key
DictSetAlone(d, k, e) == [x \in {k} |-> e]

DictSet(d, k, e) == [x \in DOMAIN d \cup {k} |-> IF x = k THEN e ELSE d[x]]

\* mutant: keeps the less specific (shorter) URL
FilterStepKeepShorter(cp, filtered, f) ==
    IF f[2] \in DOMAIN filtered /\ Len(f[1]) > Len(filtered[f[2]].url)
    THEN filtered
    ELSE IF version_blacklisted(cp, f[2])
    THEN filtered
    ELSE DictSet(filtered, f[2], Entry(f))

\* mutant: an equally long URL does not replace the stored one
FilterStepTieKeepsFirst(cp, filtered, f) ==
    IF f[2] \in DOMAIN filtered /\ Len(f[1]) <= Len(filtered[f[2]].url)
    THEN filtered
    ELSE IF version_blacklisted(cp, f[2])
    THEN filtered
    ELSE DictSet(filtered, f[2], Entry(f))

\* mutant: the blacklist test is lost
FilterStepNoBlacklist(cp, filtered, f) ==
    IF f[2] \in DOMAIN filtered /\ Len(f[1]) < Len(filtered[f[2]].url)
    THEN filtered
    ELSE DictSet(filtered, f[2], Entry(f))

\* one iteration of the loop of filter_versions
FilterStep(cp, filtered, f) ==
    IF f[2] \in DOMAIN filtered /\ Len(f[1]) < Len(filtered[f[2]].url)
    THEN filtered
    ELSE IF version_blacklisted(cp, f[2])
    THEN filtered
    ELSE DictSet(filtered, f[2], Entry(f))

RECURSIVE FilterLoop(_, _, _, _)
FilterLoop(cp, vs, i, filtered) ==
    IF i > Len(vs)
    THEN filtered
    ELSE FilterLoop(cp, vs, i + 1, FilterStep(cp, filtered, vs[i]))

\* mutant: the dict is keyed by (version, url), so one version can stay twice
filter_versions_per_url(cp, vs) ==
    {<<cp, vs[i][1], vs[i][2], vs[i][3], vs[i][4]>> :
        i \in {k \in DOMAIN vs : ~version_blacklisted(cp, vs[k][2])}}

filter_versions(cp, vs) ==
    LET filtered == FilterLoop(cp, vs, 1, EmptyDict)
    IN  {<<cp, filtered[v].url, v, filtered[v].handler, filtered[v].confidence>> :
            v \in DOMAIN filtered}

----------------------------------------------------------------------------
(* Packages and the query collaborator *)

\* portage's version order, ascending
VersionOrder == << <<"1">>, <<"2">>, <<"9", "9", "9", "9">> >>

Rank(version) == CHOOSE i \in 1..Len(VersionOrder) : VersionOrder[i] = version

Packages ==
    {[cp |-> c, version |-> VersionOrder[i]] :
        c \in {CpOk, CpBad}, i \in 1..Len(VersionOrder)}

NoPkg == [cp |-> "", version |-> <<>>]

IsInjective(s) == \A i, j \in DOMAIN s : s[i] = s[j] => i = j

\* what Query(query).find(...) can return: packages of one cp, in any order
QueryResults ==
    {s \in SeqsUpTo(Packages, MaxMatches) :
        IsInjective(s) /\ \A i, j \in DOMAIN s : s[i].cp = s[j].cp}

\* sorted(matches)
Sorted(s) ==
    CHOOSE t \in [1..Len(s) -> {s[i] : i \in DOMAIN s}] :
        /\ IsInjective(t)
        /\ \A i, j \in DOMAIN t : i < j => Rank(t[i].version) < Rank(t[j].version)

\* '9999' in pkg.version
IsLive(p) == Contains(p.version, LiveMarker)

\* a Package object defines neither __len__ nor __nonzero__: it is truthy
Truthy(p) == TRUE

Pop(ms) == <<ms[Len(ms)], SubSeq(ms, 1, Len(ms) - 1)>>

\* mutant: the loop over live versions is lost
KeepFirstPopped(p, ms) == <<p, ms>>

\* while '9999' in pkg.version and len(matches): pkg = matches.pop()
RECURSIVE PopWhileLive(_, _)
PopWhileLive(p, ms) ==
    IF IsLive(p) /\ Len(ms) > 0
    THEN PopWhileLive(Pop(ms)[1], Pop(ms)[2])
    ELSE <<p, ms>>

----------------------------------------------------------------------------
(* Source-location maps: a sequence of non-empty URL lists, one per        *)
(* filename, in the map's iteration order                                  *)

RECURSIVE NumUrls(_)
NumUrls(m) == IF m = <<>> THEN 0 ELSE Len(m[1]) + NumUrls(Tail(m))

\* the maps of at most n URLs: no filename, or a first filename with k >= 1
\* URLs followed by a map of at most n - k URLs
RECURSIVE MapsWithin(_)
MapsWithin(n) ==
    {<<>>} \cup
    UNION {{<<l>> \o m : l \in [1..k -> DeclaredUrls], m \in MapsWithin(n - k)} :
              k \in 1..n}

\* one filename with BigCount URLs, all but the last without a scheme
BigMap == <<[i \in 1..BigCount |-> IF i = BigCount THEN UrlOk ELSE UrlBad]>>

UrlMaps == MapsWithin(MaxUrls) \cup {BigMap}

----------------------------------------------------------------------------
(* Handler registry: what one call can return *)

FScanGood == <<FUrlFile, "1.2", "generic", 80>>
FScanBlack == <<FUrlDir, "6.6", "generic", 80>>
FBrute == <<FUrlDir, "1.2", "brute_force", 40>>

ScanReturns == {<<>>, <<FScanGood>>, <<FScanBlack>>}
BruteReturns == {<<>>, <<FBrute>>}

----------------------------------------------------------------------------
(* Results *)

Pending == [status |-> "pending", entries |-> {}]
None == [status |-> "None", entries |-> {}]
Returned(es) == [status |-> "returned", entries |-> es]
Raised(e) == [status |-> e, entries |-> {}]

Call(op, raised, ret) ==
    [op |-> op, file |-> fi, idx |-> ui, raised |-> raised, ret |-> ret]

----------------------------------------------------------------------------
(* Initial states *)

Configs == [oneshot : BOOLEAN, scan_dir : BOOLEAN, brute_force : {0, 2}]

Locals ==
    /\ matches = <<>>
    /\ urls = <<>>
    /\ fi = 0
    /\ ui = 0
    /\ progress_available = 0
    /\ progress_increment = 0
    /\ reported = 0
    /\ calls = <<>>
    /\ result = Pending

Init ==
    /\ pc = "resolve"
    /\ CONFIG \in Configs
    /\ on_progress \in BOOLEAN
    /\ pkg = NoPkg
    /\ versions = <<>>
    /\ Locals

----------------------------------------------------------------------------
(* scan_upstream *)

Return(r) ==
    /\ pc' = "done"
    /\ result' = r

Resolved(ms) ==
    /\ matches' = ms
    /\ IF ms = <<>> THEN Return(None) ELSE pc' = "select" /\ result' = result
    /\ UNCHANGED <<CONFIG, on_progress, pkg, urls, fi, ui, versions,
                   progress_available, progress_increment, reported, calls>>

\* the query names an ebuild file: package_from_ebuild finds its cpv or not
ResolveEbuild ==
    /\ pc = "resolve"
    /\ \E ms \in {<<>>} \cup {<<p>> : p \in Packages} : Resolved(ms)

\* any other query: Query(query).find(...)
ResolveQuery ==
    /\ pc = "resolve"
    /\ \E ms \in QueryResults : Resolved(ms)

\* sort, pop the highest, skip live versions, the guard on pkg
SelectPackage ==
    /\ pc = "select"
    /\ LET first == Pop(Sorted(matches))
           sel == PopWhileLive(first[1], first[2])
       IN  /\ pkg' = sel[1]
           /\ matches' = sel[2]
           /\ IF ~Truthy(sel[1])
              THEN Return(None)
              ELSE pc' = "progress" /\ result' = result
    /\ UNCHANGED <<CONFIG, on_progress, urls, fi, ui, versions,
                   progress_available, progress_increment, reported, calls>>

\* if on_progress: on_progress(increment=10)
ReportResolved ==
    /\ pc = "progress"
    /\ reported' = IF on_progress THEN reported + ResolveIncrement ELSE reported
    /\ pc' = "blacklist"
    /\ UNCHANGED <<CONFIG, on_progress, matches, pkg, urls, fi, ui, versions,
                   progress_available, progress_increment, calls, result>>

\* mutant: a blacklisted package is scanned like any other
CheckBlacklistIgnored ==
    /\ pc = "blacklist"
    /\ pc' = "parse"
    /\ UNCHANGED <<CONFIG, on_progress, matches, pkg, urls, fi, ui, versions,
                   progress_available, progress_increment, reported, calls,
                   result>>

CheckBlacklist ==
    /\ pc = "blacklist"
    /\ IF pkg.cp \in BLACKLIST_PACKAGES
       THEN Return(None)
       ELSE pc' = "parse" /\ result' = result
    /\ UNCHANGED <<CONFIG, on_progress, matches, pkg, urls, fi, ui, versions,
                   progress_available, progress_increment, reported, calls>>

\* mutant: no except clause, the exception leaves scan_upstream
ParseUriMapFailsUncaught ==
    /\ pc = "parse"
    /\ Return(Raised("Exception"))
    /\ UNCHANGED <<CONFIG, on_progress, matches, pkg, urls, fi, ui, versions,
                   progress_available, progress_increment, reported, calls>>

\* porttree._parse_uri_map raises: Invalid SRC_URI
ParseUriMapFails ==
    /\ pc = "parse"
    /\ Return(None)
    /\ UNCHANGED <<CONFIG, on_progress, matches, pkg, urls, fi, ui, versions,
                   progress_available, progress_increment, reported, calls>>

\* both expansions succeed; the "mirror" feature picks the unfiltered one
\* (aalist) over the use-filtered one (alist, here the first k filenames)
ParseUriMap ==
    /\ pc = "parse"
    /\ \E aalist \in UrlMaps, k \in 0..MaxUrls, mirror \in BOOLEAN :
        /\ k <= Len(aalist)
        /\ LET alist == SubSeq(aalist, 1, k)
           IN  urls' = IF mirror THEN aalist ELSE alist
    /\ pc' = "dispatch"
    /\ UNCHANGED <<CONFIG, on_progress, matches, pkg, fi, ui, versions,
                   progress_available, progress_increment, reported, calls,
                   result>>

\* if on_progress: on_progress(increment=10); return result
Finalize ==
    /\ pc = "finalize"
    /\ reported' = IF on_progress THEN reported + FinalIncrement ELSE reported
    /\ pc' = "done"
    /\ UNCHANGED <<CONFIG, on_progress, matches, pkg, urls, fi, ui, versions,
                   progress_available, progress_increment, calls, result>>

----------------------------------------------------------------------------
(* scan_upstream_urls *)

Url == urls[fi][ui]

\* the outer for loop takes the next filename, or the loops are over
NextFile ==
    IF fi < Len(urls)
    THEN fi' = fi + 1 /\ ui' = 1 /\ pc' = "url"
    ELSE fi' = fi /\ ui' = ui /\ pc' = "filter"

\* the inner for loop takes the next URL of the filename
NextUrl ==
    IF ui < Len(urls[fi])
    THEN fi' = fi /\ ui' = ui + 1 /\ pc' = "url"
    ELSE NextFile

\* break leaves the inner for loop
Break == NextFile

\* if versions and CONFIG['oneshot']
StopAtFirst(vs) == vs # <<>> /\ CONFIG.oneshot

\* mutant: the per-URL share is rounded up
DispatchInitRoundsUp ==
    /\ pc = "dispatch"
    /\ versions' = <<>>
    /\ progress_available' = UrlBudget
    /\ IF NumUrls(urls) = 0
       THEN /\ Return(Raised("ZeroDivisionError"))
            /\ UNCHANGED <<progress_increment, fi, ui>>
       ELSE /\ progress_increment' =
                    (UrlBudget + NumUrls(urls) - 1) \div NumUrls(urls)
            /\ fi' = 1
            /\ ui' = 1
            /\ pc' = "url"
            /\ result' = result
    /\ UNCHANGED <<CONFIG, on_progress, matches, pkg, urls, reported, calls>>

\* versions = [], the budget and its per-URL share; 70 / 0 raises
DispatchInit ==
    /\ pc = "dispatch"
    /\ versions' = <<>>
    /\ progress_available' = UrlBudget
    /\ IF NumUrls(urls) = 0
       THEN /\ Return(Raised("ZeroDivisionError"))
            /\ UNCHANGED <<progress_increment, fi, ui>>
       ELSE /\ progress_increment' = UrlBudget \div NumUrls(urls)
            /\ fi' = 1
            /\ ui' = 1
            /\ pc' = "url"
            /\ result' = result
    /\ UNCHANGED <<CONFIG, on_progress, matches, pkg, urls, reported, calls>>

\* mutant: an invalid URL ends the loop over the filename's URLs
BeginUrlInvalidBreaks ==
    /\ pc = "url"
    /\ IF on_progress /\ progress_available > 0
       THEN /\ reported' = reported + progress_increment
            /\ progress_available' = progress_available - progress_increment
       ELSE UNCHANGED <<reported, progress_available>>
    /\ IF ~Contains(Url, SchemeSep)
       THEN Break
       ELSE fi' = fi /\ ui' = ui /\ pc' = "scan"
    /\ UNCHANGED <<CONFIG, on_progress, matches, pkg, urls, versions,
                   progress_increment, calls, result>>

\* the progress report of one URL, then the test for a scheme separator
BeginUrl ==
    /\ pc = "url"
    /\ IF on_progress /\ progress_available > 0
       THEN /\ reported' = reported + progress_increment
            /\ progress_available' = progress_available - progress_increment
       ELSE UNCHANGED <<reported, progress_available>>
    /\ IF ~Contains(Url, SchemeSep)
       THEN NextUrl
       ELSE fi' = fi /\ ui' = ui /\ pc' = "scan"
    /\ UNCHANGED <<CONFIG, on_progress, matches, pkg, urls, versions,
                   progress_increment, calls, result>>

\* mutant: no oneshot test between the normal scan and brute force
AfterScanNoStop == fi' = fi /\ ui' = ui /\ pc' = "brute"

\* the oneshot test after the normal scan
AfterScan ==
    IF StopAtFirst(versions')
    THEN Break
    ELSE fi' = fi /\ ui' = ui /\ pc' = "brute"

\* CONFIG["scan-dir"] is off
ScanDisabled ==
    /\ pc = "scan"
    /\ ~CONFIG.scan_dir
    /\ versions' = versions
    /\ AfterScan
    /\ UNCHANGED <<CONFIG, on_progress, matches, pkg, urls,
                   progress_available, progress_increment, reported, calls,
                   result>>

\* handlers.scan(cpv, url) returns its findings
ScanReturnsFindings ==
    /\ pc = "scan"
    /\ CONFIG.scan_dir
    /\ \E ret \in ScanReturns :
        /\ versions' = versions \o ret
        /\ calls' = Append(calls, Call("scan", FALSE, ret))
    /\ AfterScan
    /\ UNCHANGED <<CONFIG, on_progress, matches, pkg, urls,
                   progress_available, progress_increment, reported, result>>

\* handlers.scan(cpv, url) raises: caught, warned about
ScanRaises ==
    /\ pc = "scan"
    /\ CONFIG.scan_dir
    /\ versions' = versions
    /\ calls' = Append(calls, Call("scan", TRUE, <<>>))
    /\ AfterScan
    /\ UNCHANGED <<CONFIG, on_progress, matches, pkg, urls,
                   progress_available, progress_increment, reported, result>>

\* mutant: the loop body is run again for the same URL
AfterBruteRescans ==
    IF StopAtFirst(versions')
    THEN Break
    ELSE fi' = fi /\ ui' = ui /\ pc' = "scan"

\* the oneshot test after brute force; the loop body ends
AfterBrute ==
    IF StopAtFirst(versions')
    THEN Break
    ELSE NextUrl

\* CONFIG["brute-force"] is 0
BruteDisabled ==
    /\ pc = "brute"
    /\ ~(CONFIG.brute_force > 0)
    /\ versions' = versions
    /\ AfterBrute
    /\ UNCHANGED <<CONFIG, on_progress, matches, pkg, urls,
                   progress_available, progress_increment, reported, calls,
                   result>>

\* handlers.brute_force(cpv, url) returns its findings
BruteForceReturns ==
    /\ pc = "brute"
    /\ CONFIG.brute_force > 0
    /\ \E ret \in BruteReturns :
        /\ versions' = versions \o ret
        /\ calls' = Append(calls, Call("brute_force", FALSE, ret))
    /\ AfterBrute
    /\ UNCHANGED <<CONFIG, on_progress, matches, pkg, urls,
                   progress_available, progress_increment, reported, result>>

\* handlers.brute_force(cpv, url) raises: nothing catches it, neither here
\* nor in scan_upstream
BruteForceRaises ==
    /\ pc = "brute"
    /\ CONFIG.brute_force > 0
    /\ calls' = Append(calls, Call("brute_force", TRUE, <<>>))
    /\ Return(Raised("HandlerError"))
    /\ UNCHANGED <<CONFIG, on_progress, matches, pkg, urls, fi, ui, versions,
                   progress_available, progress_increment, reported>>

\* mutant: the unused budget is not flushed
FilterWithoutFlush ==
    /\ pc = "filter"
    /\ result' = Returned(filter_versions(pkg.cp, versions))
    /\ pc' = "finalize"
    /\ UNCHANGED <<CONFIG, on_progress, matches, pkg, urls, fi, ui, versions,
                   progress_available, progress_increment, reported, calls>>

\* mutant: the flush reports the whole budget, not what is left of it
FilterFlushesWholeBudget ==
    /\ pc = "filter"
    /\ result' = Returned(filter_versions(pkg.cp, versions))
    /\ reported' = IF on_progress /\ progress_available > 0
                   THEN reported + UrlBudget
                   ELSE reported
    /\ pc' = "finalize"
    /\ UNCHANGED <<CONFIG, on_progress, matches, pkg, urls, fi, ui, versions,
                   progress_available, progress_increment, calls>>

\* pkgsplit, filter_versions, the flush of the unused budget, return
FilterAndFlush ==
    /\ pc = "filter"
    /\ result' = Returned(filter_versions(pkg.cp, versions))
    /\ reported' = IF on_progress /\ progress_available > 0
                   THEN reported + progress_available
                   ELSE reported
    /\ pc' = "finalize"
    /\ UNCHANGED <<CONFIG, on_progress, matches, pkg, urls, fi, ui, versions,
                   progress_available, progress_increment, calls>>

----------------------------------------------------------------------------
(* The scan of one package *)

Next ==
    \/ ResolveEbuild
    \/ ResolveQuery
    \/ SelectPackage
    \/ ReportResolved
    \/ CheckBlacklist
    \/ ParseUriMapFails
    \/ ParseUriMap
    \/ DispatchInit
    \/ BeginUrl
    \/ ScanDisabled
    \/ ScanReturnsFindings
    \/ ScanRaises
    \/ BruteDisabled
    \/ BruteForceReturns
    \/ BruteForceRaises
    \/ FilterAndFlush
    \/ Finalize

Spec == Init /\ [][Next]_vars

----------------------------------------------------------------------------
(* filter_versions on its own: any cp, any findings list *)

InitFilter ==
    /\ pc = "filter_versions"
    /\ CONFIG = [oneshot |-> FALSE, scan_dir |-> TRUE, brute_force |-> 0]
    /\ on_progress = FALSE
    /\ \E cp \in {CpOk, CpOther} : pkg = [cp |-> cp, version |-> VersionOrder[1]]
    /\ versions \in SeqsUpTo(Findings, MaxFindings)
    /\ Locals

FilterVersions ==
    /\ pc = "filter_versions"
    /\ result' = Returned(filter_versions(pkg.cp, versions))
    /\ pc' = "filtered"
    /\ UNCHANGED <<CONFIG, on_progress, matches, pkg, urls, fi, ui, versions,
                   progress_available, progress_increment, reported, calls>>

NextFilter == FilterVersions

SpecFilter == InitFilter /\ [][NextFilter]_vars

----------------------------------------------------------------------------
(* Properties *)

\* the result entry a finding turns into
AsEntry(cp, f) == <<cp, f[1], f[2], f[3], f[4]>>

\* the result entries reporting version v
EntriesFor(v) == {e \in result.entries : e[3] = v}

\* the positions of the findings list that report version v
Proposals(v) == {k \in DOMAIN versions : versions[k][2] = v}

ScanRaisedAt(i) == calls[i].op = "scan" /\ calls[i].raised

\* C1: if handlers.scan raised on a URL and handlers.scan later returned a
\* finding with a version that is not blacklisted, the dispatch does not
\* abort, and the result it returns reports that version.
C1_FaultIsolation ==
    \A i, j \in DOMAIN calls :
        (/\ i < j
         /\ ScanRaisedAt(i)
         /\ calls[j].op = "scan"
         /\ \E k \in DOMAIN calls[j].ret :
                ~version_blacklisted(pkg.cp, calls[j].ret[k][2]))
        => /\ result.status \in {"pending", "returned"}
           /\ pc \in {"finalize", "done"} =>
                \A k \in DOMAIN calls[j].ret :
                    ~version_blacklisted(pkg.cp, calls[j].ret[k][2])
                        => EntriesFor(calls[j].ret[k][2]) # {}

\* C2: with oneshot on, once a handler call on the first URL has returned a
\* finding, handlers.scan is called for no other URL, of the same filename or
\* of a later one.
C2_OneshotEarlyExit ==
    (/\ CONFIG.oneshot
     /\ \E i \in DOMAIN calls :
            calls[i].file = 1 /\ calls[i].idx = 1 /\ calls[i].ret # <<>>)
    => \A j \in DOMAIN calls :
            calls[j].op = "scan" => calls[j].file = 1 /\ calls[j].idx = 1

\* a scan_upstream call that ran to its end with a callback and >= 1 URL
FullScanWithProgress ==
    /\ pc = "done"
    /\ result.status = "returned"
    /\ on_progress
    /\ NumUrls(urls) >= 1

\* C3 as claimed: over a full scan of a map with at least one URL the
\* increments passed to on_progress sum to 100.
C3_ProgressSumsTo100 == FullScanWithProgress => reported = 100

\* C3 as amended: over a full scan of a map with at least one URL the
\* increments passed to on_progress sum to 90: 10 on resolution, 70 from the
\* dispatcher (per-URL shares plus the flushed remainder), 10 at the end.
C3_ProgressSumsTo90 ==
    FullScanWithProgress
        => reported = ResolveIncrement + UrlBudget + FinalIncrement

\* a full scan of three URLs (3 does not divide 70) stopped early by oneshot
C3_Witness ==
    /\ FullScanWithProgress
    /\ NumUrls(urls) = 3
    /\ CONFIG.oneshot
    /\ versions # <<>>
    /\ reported = 90

TiedPair(i, j, v) ==
    /\ i < j
    /\ Proposals(v) = {i, j}
    /\ ~version_blacklisted(pkg.cp, v)
    /\ Len(versions[i][1]) = Len(versions[j][1])

LastLongest(v) ==
    CHOOSE k \in Proposals(v) :
        /\ \A m \in Proposals(v) : Len(versions[m][1]) <= Len(versions[k][1])
        /\ \A m \in Proposals(v) :
                Len(versions[m][1]) = Len(versions[k][1]) => m <= k

DispatcherDone == pc = "done" /\ result # None

\* C6: a scan whose source-location map has no URL at all does not raise and
\* returns the empty result.
C6_EmptyInputYieldsEmpty ==
    (DispatcherDone /\ NumUrls(urls) = 0) => result = Returned({})

\* C7: when every matched package is a live (9999) version, scan_upstream
\* returns None at the selection, before any dispatch.
C7_DevOnlyRejected ==
    [][(pc = "select" /\ \A i \in DOMAIN matches : IsLive(matches[i]))
          => (pc' = "done" /\ result' = None)]_vars

\* C8: a handlers.brute_force call that raised does not end the call with
\* that exception: the dispatch goes on or has returned a result.
C8_BruteForceFaultContained ==
    (\E i \in DOMAIN calls : calls[i].op = "brute_force" /\ calls[i].raised)
        => result.status \in {"pending", "returned"}

\* C9: no version blacklisted for the cp is in the output of filter_versions,
\* however many findings propose it and wherever they stand.
C9_BlacklistExcluded ==
    pc = "filtered" =>
        \A e \in result.entries : ~version_blacklisted(pkg.cp, e[3])

\* a blacklisted version proposed first and last, around a kept finding
C9_Witness ==
    /\ pc = "filtered"
    /\ Len(versions) = 3
    /\ version_blacklisted(pkg.cp, versions[1][2])
    /\ version_blacklisted(pkg.cp, versions[3][2])
    /\ result.entries = {AsEntry(pkg.cp, versions[2])}

\* C10: once the selected package's cp is in BLACKLIST_PACKAGES the call
\* never enters the dispatcher nor calls a handler, and it returns None.
C10_PackageBlacklistFirst ==
    pkg.cp \in BLACKLIST_PACKAGES =>
        /\ pc \in {"progress", "blacklist", "done"}
        /\ calls = <<>>
        /\ pc = "done" => result = None

\* a blacklisted package was selected and the call returned None
C10_Witness ==
    /\ pkg.cp \in BLACKLIST_PACKAGES
    /\ pc = "done"
    /\ result = None
    /\ calls = <<>>


\* scan_upstream_urls is running, or has just returned or raised
DispatcherEntered ==
    \/ pc \in {"url", "scan", "brute", "filter", "finalize"}
    \/ pc = "done" /\ result.status = "HandlerError"

\* the sum of the increments the dispatcher itself has reported so far: all
\* but the one scan_upstream reports before the dispatcher is called
DispatcherReported ==
    reported - (IF on_progress THEN ResolveIncrement ELSE 0)

\* C11: at every point of a scan_upstream call the increments passed to
\* on_progress sum to at most 100, and those the dispatcher has passed sum to
\* at most its budget of 70.
C11_ProgressWithinBudget ==
    /\ reported <= 100
    /\ DispatcherEntered => DispatcherReported <= UrlBudget

\* the dispatcher has returned having reported its whole budget, part of it
\* by the final flush of a remainder
C11_Witness ==
    /\ pc = "finalize"
    /\ on_progress
    /\ progress_available > 0
    /\ progress_available < UrlBudget
    /\ DispatcherReported = UrlBudget


\* C12: when the expansion of SRC_URI fails (the step from the parse position
\* hands no map to the dispatcher), scan_upstream ends there returning None:
\* it raises nothing, the dispatcher is not entered, no handler is called.
C12_MetadataErrorReturnsNone ==
    [][(pc = "parse" /\ pc' # "dispatch")
          => /\ pc' = "done"
             /\ result' = None
             /\ calls' = <<>>
             /\ fi' = 0
             /\ urls' = <<>>]_vars

\* a package that was selected and is not blacklisted, and yet None returned:
\* the expansion of its SRC_URI failed
C12_Witness ==
    /\ pc = "done"
    /\ result = None
    /\ pkg # NoPkg
    /\ pkg.cp \notin BLACKLIST_PACKAGES
    /\ calls = <<>>
    /\ fi = 0


\* C13: the output of filter_versions holds at most one entry per version
\* string, and every entry carries the cp it was called with.
C13_OneEntryPerVersion ==
    result.status = "returned" =>
        /\ \A e1, e2 \in result.entries : e1[3] = e2[3] => e1 = e2
        /\ \A e \in result.entries : e[1] = pkg.cp

\* three findings with three different URLs report one version: one entry
C13_Witness ==
    /\ pc = "filtered"
    /\ Len(versions) = 3
    /\ Proposals(versions[1][2]) = {1, 2, 3}
    /\ Cardinality({versions[k][1] : k \in DOMAIN versions}) = 3
    /\ Cardinality(result.entries) = 1


\* C14: when some matched package is not a live (9999) version, the package
\* selected is one of the matches, is not live, and no match that is not
\* live ranks above it.
C14_HighestStableSelected ==
    [][(pc = "select" /\ \E i \in DOMAIN matches : ~IsLive(matches[i]))
          => /\ \E i \in DOMAIN matches : pkg' = matches[i]
             /\ ~IsLive(pkg')
             /\ \A i \in DOMAIN matches :
                    ~IsLive(matches[i])
                        => Rank(matches[i].version) <= Rank(pkg'.version)]_vars

\* the selection left a lower match behind and went on with a stable package
C14_Witness ==
    /\ pc = "progress"
    /\ ~IsLive(pkg)
    /\ Len(matches) = 1
    /\ Rank(matches[1].version) < Rank(pkg.version)


\* the URL the loops take after the current one, if there is one
HasLaterUrl == ui < Len(urls[fi]) \/ fi < Len(urls)
LaterUrl == IF ui < Len(urls[fi]) THEN <<fi, ui + 1>> ELSE <<fi + 1, 1>>

\* C15: every handler call is made for the current URL and that URL holds
\* '://'; the step that meets a URL without '://' calls no handler, reports
\* that URL's progress increment (while budget is left) and goes on with the
\* next URL in order, or ends the loops if there is none.
C15_InvalidUrlSkipped ==
    [][/\ calls' # calls
            => /\ Contains(urls[fi][ui], SchemeSep)
               /\ calls'[Len(calls')].file = fi
               /\ calls'[Len(calls')].idx = ui
       /\ (pc = "url" /\ ~Contains(Url, SchemeSep))
            => /\ calls' = calls
               /\ versions' = versions
               /\ IF HasLaterUrl
                  THEN pc' = "url" /\ <<fi', ui'>> = LaterUrl
                  ELSE pc' = "filter"
               /\ (on_progress /\ progress_available > 0)
                    => reported' = reported + progress_increment]_vars

\* the first URL had no scheme: it was skipped, its increment was reported,
\* no handler was called, and the second URL of the filename is being taken
C15_Witness ==
    /\ pc = "url"
    /\ fi = 1
    /\ ui = 2
    /\ ~Contains(urls[1][1], SchemeSep)
    /\ Contains(urls[1][2], SchemeSep)
    /\ on_progress
    /\ progress_increment > 0
    /\ reported = ResolveIncrement + progress_increment
    /\ calls = <<>>


\* C16: the remaining budget never goes below 0, and when the dispatcher
\* returns from a map of at least one URL, with a callback, the increments
\* it reported sum to exactly 70.
C16_DispatcherBudgetFlushed ==
    /\ progress_available >= 0
    /\ (pc = "finalize" /\ on_progress /\ NumUrls(urls) >= 1)
            => DispatcherReported = UrlBudget

\* more URLs than budget units: every per-URL increment was 0 and the flush
\* reported all 70
C16_Witness ==
    /\ pc = "finalize"
    /\ on_progress
    /\ NumUrls(urls) > UrlBudget
    /\ progress_increment = 0
    /\ progress_available = UrlBudget
    /\ DispatcherReported = UrlBudget


\* the call at position i of the log is for a URL before that of the call at j
UrlBefore(i, j) ==
    \/ calls[i].file < calls[j].file
    \/ calls[i].file = calls[j].file /\ calls[i].idx < calls[j].idx

SameUrl(i, j) == calls[i].file = calls[j].file /\ calls[i].idx = calls[j].idx

\* C17: of two handler calls the earlier is for an earlier URL (filenames in
\* map order, URLs in declared order), or both are for one URL and they are
\* its handlers.scan call followed by its handlers.brute_force call.
C17_SequentialDispatch ==
    \A i, j \in DOMAIN calls :
        i < j =>
            \/ UrlBefore(i, j)
            \/ /\ SameUrl(i, j)
               /\ calls[i].op = "scan"
               /\ calls[j].op = "brute_force"

\* both handlers were called for the first filename's URL, then for the second
\* filename's
C17_Witness ==
    /\ Len(calls) = 4
    /\ Len(urls) = 2
    /\ <<calls[1].op, calls[1].file>> = <<"scan", 1>>
    /\ <<calls[2].op, calls[2].file>> = <<"brute_force", 1>>
    /\ <<calls[3].op, calls[3].file>> = <<"scan", 2>>
    /\ <<calls[4].op, calls[4].file>> = <<"brute_force", 2>>


\* C18: with oneshot on, a step taken while the findings list is non-empty
\* is never a handlers.brute_force call.
C18_NoBruteForceAfterFirstHit ==
    [][(CONFIG.oneshot /\ versions # <<>> /\ calls' # calls)
          => calls'[Len(calls')].op # "brute_force"]_vars

\* oneshot and brute force are on, the first URL's scan found a version, and
\* the loops went through a second filename without one brute_force call
C18_Witness ==
    /\ pc = "filter"
    /\ CONFIG.oneshot
    /\ CONFIG.brute_force > 0
    /\ versions # <<>>
    /\ Len(calls) = 2
    /\ <<calls[1].op, calls[1].file, calls[1].ret # <<>> >> = <<"scan", 1, TRUE>>
    /\ <<calls[2].op, calls[2].file>> = <<"scan", 2>>


\* the versions the findings list reports that are not blacklisted for cp
KeptVersions ==
    {versions[k][2] : k \in {m \in DOMAIN versions :
                                ~version_blacklisted(pkg.cp, versions[m][2])}}

\* C19: the versions in the output of filter_versions are exactly the
\* versions of the input that are not blacklisted; every output entry is one
\* input finding, whole (url, version, handler and confidence together); a
\* single finding that is not blacklisted is output as it is.
C19_LosesAndInventsNothing ==
    pc = "filtered" =>
        /\ {e[3] : e \in result.entries} = KeptVersions
        /\ \A e \in result.entries :
                \E k \in DOMAIN versions : e = AsEntry(pkg.cp, versions[k])
        /\ (Len(versions) = 1 /\ KeptVersions # {})
                => result.entries = {AsEntry(pkg.cp, versions[1])}

\* two different versions are kept, each as found, and a blacklisted third
\* is dropped
C19_Witness ==
    /\ pc = "filtered"
    /\ Len(versions) = 3
    /\ versions[1][2] # versions[2][2]
    /\ version_blacklisted(pkg.cp, versions[3][2])
    /\ result.entries =
            {AsEntry(pkg.cp, versions[1]), AsEntry(pkg.cp, versions[2])}

====
